---- MODULE Spec2Model ----
(***************************************************************************)
(* NoCall -> Salesforce webhook worker (src/unnamed/part_000).             *)
(*                                                                         *)
(* handleRequest is modelled as one process per inbound request; every     *)
(* await of an outbound fetch is a suspension point, and the action that   *)
(* resumes the request carries the remote outcome of that fetch.  The      *)
(* remote store (call records, attribution rows) is the only state shared  *)
(* between requests.                                                       *)
(***************************************************************************)
EXTENDS Integers, Sequences, FiniteSets, TLC

(* ------------------------------ bounds --------------------------------- *)

\* number of inbound requests the worker receives
NumReqs == 2

\* longest message list given to formatConversation
MaxLen == 3

Reqs == 1..NumReqs

(* ------------------------------ values --------------------------------- *)

\* an absent / undefined / null payload field
None == "none"

\* "no record id": the null of `result?.records?.[0]?.Id || null`
NullId == 0

\* JSON bodies a remote error response can carry: an object, the JSON
\* literal null, or bytes that response.json() cannot parse
ErrBody == <<"json", "validation failed">>
NullBody == <<"json", "null">>
Unparseable == <<"not json">>
Bodies == {ErrBody, NullBody, Unparseable}

\* non-2xx statuses of a remote response (response.ok is false)
FailStatuses == {199, 300, 399, 400, 599, 600}

\* outcome of one outbound fetch: a 2xx response, a non-2xx response with a
\* status and a body, or fetch itself rejecting (network failure)
OkOutcome == [kind |-> "ok", status |-> 200, body |-> <<"json", "ok">>]
NetOutcome == [kind |-> "neterr", status |-> 0, body |-> <<"none">>]
\* every failing status with an object body, and one status with each other body
HttpFailures ==
    [kind : {"http"}, status : FailStatuses, body : {ErrBody}]
    \cup [kind : {"http"}, status : {400}, body : Bodies]
Outcomes == {OkOutcome, NetOutcome} \cup HttpFailures

(* ------------------------------ payloads ------------------------------- *)

\* attribution items as a payload carries them
FullItem == [label |-> "source", value |-> "ads", externalId |-> "abc123"]
ValueItem == [label |-> None, value |-> "ads", externalId |-> None]
EmptyItem == [label |-> None, value |-> None, externalId |-> None]

\* an optional array-valued field: absent, or present with its items
Absent == [present |-> FALSE, items |-> <<>>]
Array(items) == [present |-> TRUE, items |-> items]

\* the attribution part of a payload: a top-level `attributions` array and a
\* nested `endUser.attributions` mapping (its entries as <<key, value>> in
\* Object.entries order), either of which may be absent
AttrVariants ==
    { [attributions |-> Absent, endUserAttributions |-> Absent],
      [attributions |-> Absent, endUserAttributions |-> Array(<< <<"family", "yamada">> >>)],
      [attributions |-> Array(<<FullItem, EmptyItem, ValueItem>>),
       endUserAttributions |-> Array(<< <<"family", "yamada">> >>)] }

Ids == {None, "call-1"}
Phones == {None, "+19999999999"}

\* event shape: the NoCall console body (id, Normalized_Phone__c, ... at top level)
EventPayloads ==
    { [method |-> "POST", parsable |-> TRUE, shape |-> "event", id |-> i,
       phone |-> ph, message |-> None, notes |-> None,
       attributions |-> v.attributions,
       endUserAttributions |-> v.endUserAttributions]
      : i \in Ids, ph \in Phones, v \in AttrVariants }

\* direct shape: {call: {CallRecord_Id__c, message, notes, ...}, attributions}
DirectPayloads ==
    { [method |-> "POST", parsable |-> TRUE, shape |-> "direct", id |-> i,
       phone |-> None, message |-> "free text", notes |-> "operator memo",
       attributions |-> Array(<<FullItem>>),
       endUserAttributions |-> Absent]
      : i \in Ids }

\* a request with another method, and a POST whose body is not JSON
OtherRequests ==
    { [method |-> m, parsable |-> FALSE, shape |-> "event", id |-> None,
       phone |-> None, message |-> None, notes |-> None, attributions |-> Absent,
       endUserAttributions |-> Absent]
      : m \in {"GET", "POST"} }

Requests == EventPayloads \cup DirectPayloads \cup OtherRequests

(* --------------------------- pure functions ---------------------------- *)

\* JSON values a field can be present with that JavaScript treats as false
JsNull == "json null"
JsZero == "json 0"
JsFalse == "json false"

\* JavaScript falsiness: undefined / absent, null, "", 0, false
Falsy(v) == v \in {None, "", JsNull, JsZero, JsFalse}

safeJson(body) ==
    IF body = Unparseable THEN <<"json", "Failed to parse JSON">> ELSE body

\* the thrown values of the module
SalesforceError(message, status, body) ==
    [name |-> "SalesforceError", message |-> message, status |-> status, body |-> body]

PlainError(name, message) ==
    [name |-> name, message |-> message]

isSalesforceError(error) ==
    \/ error.name = "SalesforceError"
    \/ ("status" \in DOMAIN error /\ "body" \in DOMAIN error)

\* faulty variant: the lower bound of the mirrored range excluded
mapSalesforceStatusExclusive(status) ==
    IF status > 400 /\ status < 600 THEN status
    ELSE IF status >= 300 /\ status < 400 THEN 502
    ELSE 500

mapSalesforceStatus(status) ==
    IF status >= 400 /\ status < 600 THEN status
    ELSE IF status >= 300 /\ status < 400 THEN 502
    ELSE 500

\* the canonical call of an event-shape payload: the key fields it carries.
\* Normalized_Phone__c is not among the fields buildCallFromWebhook copies.
buildCallFromWebhook(payload) ==
    [CallRecord_Id__c |-> payload.id, Normalized_Phone__c |-> None,
     message |-> None, Conversation__c |-> None,
     notes |-> None, Notes__c |-> None]

normalizeAttributions(payload) ==
    IF payload.attributions.present THEN payload.attributions.items
    ELSE IF payload.endUserAttributions.present
         THEN LET entries == payload.endUserAttributions.items
              IN [k \in 1..Len(entries) |->
                    [label |-> entries[k][1], value |-> entries[k][2],
                     externalId |-> None]]
         ELSE <<>>

normalizePayload(payload) ==
    IF payload.shape = "direct"
    THEN [call |-> [CallRecord_Id__c |-> payload.id,
                    Normalized_Phone__c |-> payload.phone,
                    message |-> payload.message, Conversation__c |-> None,
                    notes |-> payload.notes, Notes__c |-> None],
          attributions |-> payload.attributions.items]
    ELSE [call |-> buildCallFromWebhook(payload),
          attributions |-> normalizeAttributions(payload)]

mapCallPayload(callPayload) ==
    LET mapped == IF ~Falsy(callPayload.message) /\ Falsy(callPayload.Conversation__c)
                  THEN [callPayload EXCEPT !.Conversation__c = callPayload.message]
                  ELSE callPayload
    IN IF ~Falsy(callPayload.notes) /\ Falsy(callPayload.Notes__c)
       THEN [mapped EXCEPT !.Notes__c = callPayload.notes]
       ELSE mapped

RECURSIVE SelectItems(_)
SelectItems(items) ==
    IF items = <<>> THEN <<>>
    ELSE LET item == Head(items)
             rest == SelectItems(Tail(items))
         IN IF ~Falsy(item.label) \/ ~Falsy(item.value)
            THEN <<item>> \o rest ELSE rest

\* faulty variant: every retained item yields its record twice
buildAttributionRecordsTwice(callId, attributions) ==
    LET kept == SelectItems(attributions) \o SelectItems(attributions)
    IN [k \in 1..Len(kept) |->
          [NoCall_Call__c |-> callId, Label__c |-> kept[k].label,
           Value__c |-> kept[k].value, External_Id__c |-> kept[k].externalId]]

\* faulty variant: the records are built before the id is known
buildAttributionRecordsUnlinked(callId, attributions) ==
    LET kept == SelectItems(attributions)
    IN [k \in 1..Len(kept) |->
          [NoCall_Call__c |-> NullId, Label__c |-> kept[k].label,
           Value__c |-> kept[k].value, External_Id__c |-> kept[k].externalId]]

buildAttributionRecords(callId, attributions) ==
    LET kept == SelectItems(attributions)
    IN [k \in 1..Len(kept) |->
          [NoCall_Call__c |-> callId, Label__c |-> kept[k].label,
           Value__c |-> kept[k].value, External_Id__c |-> kept[k].externalId]]

\* what each client primitive throws when its fetch does not come back 2xx
NetworkError == PlainError("TypeError", <<"fetch failed">>)

\* faulty variant: the token failure thrown as a typed remote error
fetchAccessTokenTyped(out) ==
    IF out.kind = "neterr" THEN NetworkError
    ELSE SalesforceError(<<"Salesforce auth failed", ToString(out.status)>>,
                         out.status, safeJson(out.body))

fetchAccessToken(out) ==
    IF out.kind = "neterr" THEN NetworkError
    ELSE PlainError("Error", <<"Salesforce auth failed", ToString(out.status)>>
                             \o safeJson(out.body))

createRecord(objectName, out) ==
    IF out.kind = "neterr" THEN NetworkError
    ELSE SalesforceError(<<"Failed to create", objectName, ToString(out.status)>>,
                         out.status, safeJson(out.body))

updateRecord(objectName, out) ==
    IF out.kind = "neterr" THEN NetworkError
    ELSE SalesforceError(<<"Failed to update", objectName, ToString(out.status)>>,
                         out.status, safeJson(out.body))

queryRecords(out) ==
    IF out.kind = "neterr" THEN NetworkError
    ELSE SalesforceError(<<"Salesforce query failed", ToString(out.status)>>,
                         out.status, safeJson(out.body))

(* ------------------------------ responses ------------------------------ *)

\* jsonResponse(body, status); a field the body does not have is None / -1 / NullId
jsonResponse(status, error, detail, operation, salesforceStatus, callId, attributionIds) ==
    [status |-> status, error |-> error, detail |-> detail, operation |-> operation,
     salesforceStatus |-> salesforceStatus, callId |-> callId,
     attributionIds |-> attributionIds]

NoResponse == jsonResponse(0, None, <<>>, None, -1, NullId, <<>>)

\* the catch block of handleRequest
CatchResponse(error, operation) ==
    IF isSalesforceError(error)
    THEN jsonResponse(mapSalesforceStatus(error.status), "Salesforce error",
                      IF error.body # NullBody THEN error.body ELSE error.message,
                      operation, error.status, NullId, <<>>)
    ELSE jsonResponse(500, "Unexpected error", <<error.name>> \o error.message,
                      operation, -1, NullId, <<>>)

(* ----------------------------- conversation ---------------------------- *)

\* Text is a sequence of pieces; the piece NL is the newline character.
NL == "\n"

\* entries of a conversation message list
SystemMsg == [object |-> TRUE, role |-> "system", content |-> <<"system prompt text">>,
              name |-> None, toolCallId |-> None]
UserMsg == [object |-> TRUE, role |-> "user", content |-> <<"hello">>,
            name |-> None, toolCallId |-> None]
AssistantMsg == [object |-> TRUE, role |-> "assistant", content |-> <<"response">>,
                 name |-> None, toolCallId |-> None]
ToolCallMsg == [object |-> TRUE, role |-> "assistant_tool_call", content |-> <<>>,
                name |-> "lookup", toolCallId |-> None]
ToolMsg == [object |-> TRUE, role |-> "tool", content |-> <<"tool result">>,
            name |-> None, toolCallId |-> "tool_call_123"]
RawEntry == [object |-> FALSE, role |-> None, content |-> <<"raw">>,
             name |-> None, toolCallId |-> None]

Entries == {SystemMsg, UserMsg, AssistantMsg, ToolCallMsg, ToolMsg, RawEntry}

RECURSIVE SeqsUpTo(_, _)
SeqsUpTo(S, n) ==
    IF n = 0 THEN {<<>>}
    ELSE LET shorter == SeqsUpTo(S, n - 1)
         IN shorter \cup {Append(q, e) : q \in shorter, e \in S}

MessageLists == SeqsUpTo(Entries, MaxLen)

\* the callback of messages.map in formatConversation: the line of one entry
FormatEntry(entry) ==
    IF ~entry.object THEN entry.content
    ELSE IF entry.role = "assistant_tool_call"
    THEN <<entry.role, ": ", "{", entry.name, "}">>
    ELSE IF entry.role = "tool"
    THEN <<entry.role, "(",
           IF ~Falsy(entry.name) THEN entry.name
           ELSE IF ~Falsy(entry.toolCallId) THEN entry.toolCallId ELSE "",
           "): ", "json">> \o entry.content
    ELSE <<IF Falsy(entry.role) THEN "message" ELSE entry.role, ": ">> \o entry.content

\* lines.join('\n')
RECURSIVE Join(_)
Join(lines) ==
    IF lines = <<>> THEN <<>>
    ELSE IF Len(lines) = 1 THEN lines[1]
    ELSE lines[1] \o <<NL>> \o Join(Tail(lines))

formatConversation(msgs) ==
    Join([k \in 1..Len(msgs) |-> FormatEntry(msgs[k])])

(* -------------------------------- state -------------------------------- *)

VARIABLES
    pc,            \* where each request is suspended
    payload,       \* the request each slot received
    operation,     \* handleRequest's `operation`
    callBody,      \* handleRequest's `callBody`
    existingCallId,\* handleRequest's `existingCallId`
    callId,        \* handleRequest's `callId`
    attributions,  \* handleRequest's `attributions` (the records of the fan-out)
    attrState,     \* state of each promise of the fan-out
    resp,          \* the response handleRequest returned
    log,           \* the outbound calls each request has issued, in order
    stepsOk,       \* which sequential remote steps of the request succeeded
    fault,         \* the outbound call whose failure the request was answered for
    doneBefore,    \* the requests that had been answered when this one arrived
    calls,         \* remote store: NoCall_Call__c records, Id = index
    rows,          \* remote store: NoCall_Attribution__c rows
    clock,         \* remote store: LastModifiedDate source
    messages,      \* input of formatConversation
    flattened,     \* output of formatConversation
    flatPc,        \* whether formatConversation has run
    directCall,    \* input of mapCallPayload: the `call` of a direct-shape payload
    mappedCall,    \* output of mapCallPayload
    mapPc          \* whether mapCallPayload has run

reqVars == <<pc, payload, operation, callBody, existingCallId, callId,
             attributions, attrState, resp, log, stepsOk, fault, doneBefore>>
storeVars == <<calls, rows, clock>>
flatVars == <<messages, flattened, flatPc>>
mapVars == <<directCall, mappedCall, mapPc>>
vars == <<reqVars, storeVars, flatVars, mapVars>>

NoCall == [CallRecord_Id__c |-> None, Normalized_Phone__c |-> None,
           message |-> None, Conversation__c |-> None,
           notes |-> None, Notes__c |-> None]

\* one outbound call as the remote side sees it
Call(op, object, key, value, ref) ==
    [op |-> op, object |-> object, key |-> key, value |-> value, ref |-> ref]

AuthCall == Call("authenticate", "token", None, None, NullId)
QueryCall(keyField, keyValue) == Call("query", "NoCall_Call__c", keyField, keyValue, NullId)
CreateCall == Call("create", "NoCall_Call__c", None, None, NullId)
UpdateCall(id) == Call("update", "NoCall_Call__c", None, None, id)
AttrCall(record) == Call("create", "NoCall_Attribution__c", None, None, record.NoCall_Call__c)

\* no call of the request has failed
NoFault == [call |-> Call("none", "none", None, None, NullId), out |-> OkOutcome]

\* the worker with no request received and the remote store empty
Idle ==
    /\ pc = [r \in Reqs |-> "idle"]
    /\ payload = [r \in Reqs |-> CHOOSE q \in OtherRequests : q.method = "GET"]
    /\ operation = [r \in Reqs |-> "insert"]
    /\ callBody = [r \in Reqs |-> NoCall]
    /\ existingCallId = [r \in Reqs |-> NullId]
    /\ callId = [r \in Reqs |-> NullId]
    /\ attributions = [r \in Reqs |-> <<>>]
    /\ attrState = [r \in Reqs |-> <<>>]
    /\ resp = [r \in Reqs |-> NoResponse]
    /\ log = [r \in Reqs |-> <<>>]
    /\ stepsOk = [r \in Reqs |-> {}]
    /\ fault = [r \in Reqs |-> NoFault]
    /\ doneBefore = [r \in Reqs |-> {}]
    /\ calls = <<>>
    /\ rows = {}
    /\ clock = 0

\* neither pure function has an input of its own
NoFlatten ==
    /\ messages = <<>>
    /\ flattened = <<>>
    /\ flatPc = "ready"

NoMap ==
    /\ directCall = NoCall
    /\ mappedCall = NoCall
    /\ mapPc = "ready"

Init ==
    /\ Idle
    /\ NoFlatten
    /\ NoMap

\* SELECT Id FROM NoCall_Call__c WHERE keyField = keyValue
\* ORDER BY LastModifiedDate DESC LIMIT 1, then `records?.[0]?.Id || null`
Matching(keyField, keyValue) ==
    {i \in 1..Len(calls) : calls[i][keyField] = keyValue}

\* faulty variant: the lookup never finds a record
findCallByKeyBlind(keyField, keyValue) == NullId

findCallByKey(keyField, keyValue) ==
    LET m == Matching(keyField, keyValue)
    IN IF m = {} THEN NullId
       ELSE CHOOSE i \in m : \A j \in m : calls[j].modified <= calls[i].modified

\* handleRequest returns `response`
Return(r, response) ==
    /\ pc' = [pc EXCEPT ![r] = "done"]
    /\ resp' = [resp EXCEPT ![r] = response]

\* the catch block answers for the request
Throw(r, error, call, out) ==
    /\ Return(r, CatchResponse(error, operation[r]))
    /\ fault' = [fault EXCEPT ![r] = [call |-> call, out |-> out]]

\* faulty variant: 201 whatever the operation
SuccessResponseCreated(op, id, attributionIds) ==
    jsonResponse(201, None, <<>>, op, -1, id, attributionIds)

\* lines 298-299: the response of a request whose calls all succeeded
SuccessResponse(op, id, attributionIds) ==
    jsonResponse(IF op = "update" THEN 200 ELSE 201, None, <<>>, op, -1, id,
                 attributionIds)

(* ------------------------------- actions ------------------------------- *)

\* handleRequest up to its first await: method check, request.json(),
\* normalizePayload, then fetchAccessToken issues the token request.  The
\* normalized call is an object for either shape, so the "Missing call
\* object" answer is never given.  Requests are numbered in arrival order.
Receive(r, p) ==
    /\ pc[r] = "idle"
    /\ \A q \in Reqs : q < r => pc[q] # "idle"
    /\ payload' = [payload EXCEPT ![r] = p]
    /\ doneBefore' = [doneBefore EXCEPT ![r] = {q \in Reqs : pc[q] = "done"}]
    /\ IF p.method # "POST"
       THEN /\ Return(r, jsonResponse(405, "Method Not Allowed", <<>>, None, -1, NullId, <<>>))
            /\ UNCHANGED log
       ELSE IF ~p.parsable
       THEN /\ Return(r, jsonResponse(400, "Invalid JSON payload", <<"SyntaxError">>,
                                      "insert", -1, NullId, <<>>))
            /\ UNCHANGED log
       ELSE /\ pc' = [pc EXCEPT ![r] = "auth"]
            /\ log' = [log EXCEPT ![r] = <<AuthCall>>]
            /\ UNCHANGED resp
    /\ UNCHANGED <<operation, callBody, existingCallId, callId, attributions,
                   attrState, stepsOk, fault, storeVars, flatVars, mapVars>>

\* the token request comes back: on success mapCallPayload, then
\* findCallByKey either returns null at once (falsy key, no query) and the
\* create is issued, or issues the query
AuthReturns(r, out) ==
    /\ pc[r] = "auth"
    /\ IF out.kind # "ok"
       THEN /\ Throw(r, fetchAccessToken(out), AuthCall, out)
            /\ UNCHANGED <<callBody, log, stepsOk>>
       ELSE LET body == mapCallPayload(normalizePayload(payload[r]).call)
                stableKeyField == "CallRecord_Id__c"
            IN /\ callBody' = [callBody EXCEPT ![r] = body]
               /\ IF Falsy(body[stableKeyField])
                  THEN /\ pc' = [pc EXCEPT ![r] = "create"]
                       /\ log' = [log EXCEPT ![r] = Append(@, CreateCall)]
                       /\ stepsOk' = [stepsOk EXCEPT ![r] = @ \cup {"authenticate", "lookup"}]
                  ELSE /\ pc' = [pc EXCEPT ![r] = "query"]
                       /\ log' = [log EXCEPT ![r] =
                                    Append(@, QueryCall(stableKeyField, body[stableKeyField]))]
                       /\ stepsOk' = [stepsOk EXCEPT ![r] = @ \cup {"authenticate"}]
               /\ UNCHANGED <<resp, fault>>
    /\ UNCHANGED <<payload, operation, existingCallId, callId, attributions,
                   attrState, doneBefore, storeVars, flatVars, mapVars>>

\* the query comes back: a match leads to updateRecord, none to createRecord
QueryReturns(r, out) ==
    /\ pc[r] = "query"
    /\ IF out.kind # "ok"
       THEN /\ Throw(r, queryRecords(out), log[r][Len(log[r])], out)
            /\ UNCHANGED <<existingCallId, log, stepsOk>>
       ELSE LET keyField == log[r][Len(log[r])].key
                found == findCallByKey(keyField, callBody[r][keyField])
            IN /\ existingCallId' = [existingCallId EXCEPT ![r] = found]
               /\ stepsOk' = [stepsOk EXCEPT ![r] = @ \cup {"lookup"}]
               /\ IF found # NullId
                  THEN /\ pc' = [pc EXCEPT ![r] = "update"]
                       /\ log' = [log EXCEPT ![r] = Append(@, UpdateCall(found))]
                  ELSE /\ pc' = [pc EXCEPT ![r] = "create"]
                       /\ log' = [log EXCEPT ![r] = Append(@, CreateCall)]
               /\ UNCHANGED <<resp, fault>>
    /\ UNCHANGED <<payload, operation, callBody, callId, attributions,
                   attrState, doneBefore, storeVars, flatVars, mapVars>>

\* lines 285-299: build the attribution records for the resolved id and
\* issue every create of the fan-out at once; with none, answer
Cascade(r, id, op) ==
    LET recs == buildAttributionRecords(id, normalizePayload(payload[r]).attributions)
    IN /\ callId' = [callId EXCEPT ![r] = id]
       /\ operation' = [operation EXCEPT ![r] = op]
       /\ stepsOk' = [stepsOk EXCEPT ![r] = @ \cup {"upsert"}]
       /\ attributions' = [attributions EXCEPT ![r] = recs]
       /\ attrState' = [attrState EXCEPT ![r] = [k \in 1..Len(recs) |-> "pending"]]
       /\ log' = [log EXCEPT ![r] = @ \o [k \in 1..Len(recs) |-> AttrCall(recs[k])]]
       /\ UNCHANGED fault
       /\ IF Len(recs) > 0
          THEN /\ pc' = [pc EXCEPT ![r] = "fanout"]
               /\ UNCHANGED resp
          ELSE Return(r, SuccessResponse(op, id, <<>>))

\* the PATCH comes back
UpdateReturns(r, out) ==
    /\ pc[r] = "update"
    /\ IF out.kind # "ok"
       THEN /\ Throw(r, updateRecord("NoCall_Call__c", out), UpdateCall(existingCallId[r]), out)
            /\ UNCHANGED <<operation, callId, attributions, attrState, log, stepsOk,
                           storeVars>>
       ELSE /\ calls' = [calls EXCEPT ![existingCallId[r]] =
                           [callBody[r] @@ @ EXCEPT !.modified = clock + 1]]
            /\ clock' = clock + 1
            /\ UNCHANGED rows
            /\ Cascade(r, existingCallId[r], "update")
    /\ UNCHANGED <<payload, callBody, existingCallId, doneBefore, flatVars, mapVars>>

\* the POST to sobjects/NoCall_Call__c/ comes back
CreateReturns(r, out) ==
    /\ pc[r] = "create"
    /\ IF out.kind # "ok"
       THEN /\ Throw(r, createRecord("NoCall_Call__c", out), CreateCall, out)
            /\ UNCHANGED <<operation, callId, attributions, attrState, log, stepsOk,
                           storeVars>>
       ELSE /\ calls' = Append(calls, callBody[r] @@
                                      [modified |-> clock + 1, createdBy |-> r])
            /\ clock' = clock + 1
            /\ UNCHANGED rows
            /\ Cascade(r, Len(calls) + 1, operation[r])
    /\ UNCHANGED <<payload, callBody, existingCallId, doneBefore, flatVars, mapVars>>

\* one create of the fan-out comes back.  Promise.all rejects on the first
\* failure and resolves when every promise has; a create that comes back
\* after the request was answered changes the store only.
RowId(r, k) == <<r, k>>

\* faulty variant: a failed create takes the request's rows back
RowsAfterRollback(r, k, out) ==
    IF out.kind = "ok"
    THEN rows \cup {attributions[r][k] @@ [id |-> RowId(r, k)]}
    ELSE {row \in rows : row.id[1] # r}

\* the attribution rows once create k of request r has come back: a
\* successful create adds its row, and nothing is ever taken back
RowsAfter(r, k, out) ==
    IF out.kind = "ok"
    THEN rows \cup {attributions[r][k] @@ [id |-> RowId(r, k)]}
    ELSE rows

\* faulty variant: the join resolves with the first create that succeeds
AnyResolved(state) == \E j \in 1..Len(state) : state[j] = "ok"

\* Promise.all over the promises of the fan-out resolves when all have
AllResolved(state) == \A j \in 1..Len(state) : state[j] = "ok"

AttrReturns(r, k, out) ==
    /\ pc[r] \in {"fanout", "done"}
    /\ k \in 1..Len(attrState[r])
    /\ attrState[r][k] = "pending"
    /\ LET state == [attrState[r] EXCEPT ![k] = IF out.kind = "ok" THEN "ok" ELSE "failed"]
       IN /\ attrState' = [attrState EXCEPT ![r] = state]
          /\ rows' = RowsAfter(r, k, out)
          /\ IF pc[r] = "done" THEN UNCHANGED <<pc, resp, fault>>
             ELSE IF out.kind # "ok"
             THEN Throw(r, createRecord("NoCall_Attribution__c", out),
                        AttrCall(attributions[r][k]), out)
             ELSE IF AllResolved(state)
             THEN /\ Return(r, SuccessResponse(operation[r], callId[r],
                                               [j \in 1..Len(state) |-> RowId(r, j)]))
                  /\ UNCHANGED fault
             ELSE UNCHANGED <<pc, resp, fault>>
    /\ UNCHANGED <<payload, operation, callBody, existingCallId, callId, attributions,
                   log, stepsOk, doneBefore, calls, clock, flatVars, mapVars>>

Next ==
    \/ \E r \in Reqs, p \in Requests : Receive(r, p)
    \/ \E r \in Reqs, out \in Outcomes : AuthReturns(r, out)
    \/ \E r \in Reqs, out \in Outcomes : QueryReturns(r, out)
    \/ \E r \in Reqs, out \in Outcomes : UpdateReturns(r, out)
    \/ \E r \in Reqs, out \in Outcomes : CreateReturns(r, out)
    \/ \E r \in Reqs, out \in Outcomes : \E k \in 1..Len(attrState[r]) : AttrReturns(r, k, out)

Spec == Init /\ [][Next]_vars

(* ---------------- formatConversation on its own inputs ------------------ *)

FlattenInit ==
    /\ Idle
    /\ messages \in MessageLists
    /\ flattened = <<>>
    /\ flatPc = "ready"
    /\ NoMap

\* buildCallFromWebhook: Conversation__c = formatConversation(messages)
Flatten ==
    /\ flatPc = "ready"
    /\ flattened' = formatConversation(messages)
    /\ flatPc' = "done"
    /\ UNCHANGED <<messages, reqVars, storeVars, mapVars>>

FlattenSpec == FlattenInit /\ [][Flatten]_vars

(* ------------------ mapCallPayload on its own inputs -------------------- *)

\* what a field of a direct-shape call can hold: nothing (the key is
\* absent), a falsy JSON value, or a text
FieldValues == {None, JsNull, "", JsZero, JsFalse, "text", "other text"}

DirectCalls ==
    [CallRecord_Id__c : {"call-1"}, Normalized_Phone__c : {None},
     message : FieldValues, Conversation__c : FieldValues,
     notes : FieldValues, Notes__c : FieldValues]

MapInit ==
    /\ Idle
    /\ NoFlatten
    /\ directCall \in DirectCalls
    /\ mappedCall = NoCall
    /\ mapPc = "ready"

\* handleRequest: callBody = mapCallPayload(normalized.call)
Map ==
    /\ mapPc = "ready"
    /\ mappedCall' = mapCallPayload(directCall)
    /\ mapPc' = "done"
    /\ UNCHANGED <<directCall, reqVars, storeVars, flatVars>>

MapSpec == MapInit /\ [][Map]_vars

(* ------------------------------- claims -------------------------------- *)

Received(r) == pc[r] # "idle"
Done(r) == pc[r] = "done"
EventShape(r) ==
    /\ Received(r)
    /\ payload[r].method = "POST" /\ payload[r].parsable /\ payload[r].shape = "event"
Succeeded(r) == Done(r) /\ resp[r].error = None
Issued(r, op, object) ==
    {k \in 1..Len(log[r]) : log[r][k].op = op /\ log[r][k].object = object}

\* C1: an event-shape payload with neither a normalized phone nor a call
\* record id is answered 400 and no outbound call is issued for it.
C1_MissingKeyRejected ==
    \A r \in Reqs :
        EventShape(r) /\ payload[r].phone = None /\ payload[r].id = None
        => /\ log[r] = <<>>
           /\ Done(r)
           /\ resp[r].status = 400

\* C2: the same event-shape payload submitted twice in sequence against a
\* store with no matching record: the first request inserts, the second
\* finds that record and updates it, and one call record exists for the key.
C2_SecondSubmissionUpdates ==
    \A r1, r2 \in Reqs :
        /\ EventShape(r1) /\ EventShape(r2)
        /\ payload[r1] = payload[r2]
        /\ payload[r1].phone # None \/ payload[r1].id # None
        /\ r1 \in doneBefore[r2]
        /\ Succeeded(r1) /\ Succeeded(r2)
        /\ \A q \in Reqs \ {r1, r2} : log[q] = <<>>
        => /\ resp[r1].operation = "insert"
           /\ resp[r2].operation = "update"
           /\ resp[r2].callId = resp[r1].callId
           /\ Len(calls) = 1

\* C3: the lookup uses exactly one key, the normalized phone when the payload
\* has one and the call record id otherwise; with a phone present no query
\* by call record id is issued.
ExpectedKey(r) ==
    IF payload[r].phone # None
    THEN [key |-> "Normalized_Phone__c", value |-> payload[r].phone]
    ELSE [key |-> "CallRecord_Id__c", value |-> payload[r].id]

C3_LookupBySingleKey ==
    \A r \in Reqs :
        /\ EventShape(r)
        /\ payload[r].phone # None \/ payload[r].id # None
        /\ "lookup" \in stepsOk[r]
        => /\ Cardinality(Issued(r, "query", "NoCall_Call__c")) = 1
           /\ \A k \in Issued(r, "query", "NoCall_Call__c") :
                 /\ log[r][k].key = ExpectedKey(r).key
                 /\ log[r][k].value = ExpectedKey(r).value

\* C4: an attribution create is issued only after authenticate, the lookup
\* and the call create/update of the request have succeeded; every
\* attribution create carries the record id the request resolved, and a call
\* record with that id is in the store.
C4_AttributionsAfterUpsert ==
    \A r \in Reqs :
        /\ Issued(r, "create", "NoCall_Attribution__c") # {}
           => {"authenticate", "lookup", "upsert"} \subseteq stepsOk[r]
        /\ \A k \in Issued(r, "create", "NoCall_Attribution__c") :
              /\ log[r][k].ref = callId[r]
              /\ callId[r] \in 1..Len(calls)
        /\ \A k \in 1..Len(attributions[r]) :
              attributions[r][k].NoCall_Call__c \in 1..Len(calls)

C4_Witness ==
    \E r \in Reqs :
        /\ pc[r] = "fanout"
        /\ Cardinality(Issued(r, "create", "NoCall_Attribution__c")) = 2
        /\ operation[r] = "update"

Failed(r) == Done(r) /\ fault[r] # NoFault
RemoteFailure(r) == Failed(r) /\ fault[r].out.kind = "http"
AuthFailure(r) == RemoteFailure(r) /\ fault[r].call.op = "authenticate"
DataFailure(r) == RemoteFailure(r) /\ fault[r].call.op \in {"create", "update", "query"}

\* the status the response has for remote status s
StatusFor(s) ==
    CASE 400 <= s /\ s <= 599 -> s
      [] 300 <= s /\ s <= 399 -> 502
      [] OTHER -> 500

MirrorsRemoteStatus(r) ==
    /\ resp[r].status = StatusFor(fault[r].out.status)
    /\ resp[r].error = "Salesforce error"
    /\ resp[r].salesforceStatus = fault[r].out.status

\* C6 as claimed: a failed create, update or query with remote status s is
\* answered s (4xx/5xx), 502 (3xx) or 500 (other), with the remote-error
\* label, the raw status s, and detail equal to the remote response body.
C6_DetailIsRemoteBody ==
    \A r \in Reqs :
        DataFailure(r)
        => /\ MirrorsRemoteStatus(r)
           /\ resp[r].detail = fault[r].out.body

\* C6 as amended: status, label and raw status as claimed; detail is the
\* remote body as parsed: the body itself when it is a JSON value other than
\* null, the parse-failure placeholder when it is not JSON, and the error's
\* message (which names the failed call and the status) when it is JSON null.
C6_DetailIsParsedBody ==
    \A r \in Reqs :
        DataFailure(r)
        => /\ MirrorsRemoteStatus(r)
           /\ CASE fault[r].out.body = Unparseable ->
                     resp[r].detail = <<"json", "Failed to parse JSON">>
                [] fault[r].out.body = NullBody ->
                     /\ Len(resp[r].detail) >= 2
                     /\ resp[r].detail[1] \in {"Failed to create", "Failed to update",
                                               "Salesforce query failed"}
                     /\ resp[r].detail[Len(resp[r].detail)] = ToString(fault[r].out.status)
                [] OTHER -> resp[r].detail = fault[r].out.body

C6_Witness ==
    \E r \in Reqs :
        /\ DataFailure(r)
        /\ fault[r].call.op = "update"
        /\ fault[r].out.status = 399
        /\ resp[r].status = 502

C8_OperationNamesAttempt ==
    \A r \in Reqs :
        /\ DataFailure(r) /\ fault[r].call.object = "NoCall_Call__c"
        /\ resp[r].error = "Salesforce error"
        => /\ fault[r].call.op = "update" => resp[r].operation = "update"
           /\ fault[r].call.op = "create" => resp[r].operation = "insert"

\* C9: when an attribution create of the fan-out fails the request is
\* answered with an error and nothing is compensated: the call record the
\* request created or updated and every attribution row whose create
\* succeeded are in the store, and the request issued no other call.
AttrFailed(r) == \E k \in 1..Len(attrState[r]) : attrState[r][k] = "failed"

C9_NoRollback ==
    \A r \in Reqs :
        AttrFailed(r)
        => /\ Done(r)
           /\ resp[r].error \in {"Salesforce error", "Unexpected error"}
           /\ resp[r].status >= 300
           /\ callId[r] \in 1..Len(calls)
           /\ operation[r] = "insert" => calls[callId[r]].createdBy = r
           /\ \A k \in 1..Len(attrState[r]) :
                 attrState[r][k] = "ok"
                 => \E row \in rows : /\ row.id = RowId(r, k)
                                      /\ row.NoCall_Call__c = callId[r]
           /\ \A k \in 1..Len(log[r]) :
                 log[r][k].op \in {"authenticate", "query", "create", "update"}

C9_Witness ==
    \E r \in Reqs :
        /\ Done(r) /\ Len(attrState[r]) = 2
        /\ attrState[r][1] = "failed" /\ attrState[r][2] = "ok"
        /\ operation[r] = "insert"

\* the lines of a text: its pieces split at every newline
RECURSIVE Lines(_)
Lines(text) ==
    IF text = <<>> THEN <<>>
    ELSE IF \A k \in 1..Len(text) : text[k] # NL THEN <<text>>
    ELSE LET n == CHOOSE k \in 1..Len(text) :
                     text[k] = NL /\ \A j \in 1..(k - 1) : text[j] # NL
         IN <<SubSeq(text, 1, n - 1)>> \o
            (IF n = Len(text) THEN << <<>> >> ELSE Lines(SubSeq(text, n + 1, Len(text))))

IsSystem(entry) == entry.object /\ entry.role = "system"
NotSystem(entry) == ~IsSystem(entry)

\* C10: no message whose role is system contributes a line to the flattened
\* text, and the lines of the other messages appear in input order, one line
\* per message.
C10_SystemMessagesOmitted ==
    flatPc = "done"
    => LET kept == SelectSeq(messages, NotSystem)
       IN Lines(flattened) = [k \in 1..Len(kept) |-> FormatEntry(kept[k])]

\* C11: alias mapping leaves every field that is present in the call
\* unchanged; Conversation__c is set from message, and Notes__c from notes,
\* only when that target is absent, and a target present with any value
\* (an empty string, 0, false or null included) keeps its value.
Present(v) == v # None

C11_PresentFieldsKept ==
    mapPc = "done"
    => /\ \A f \in DOMAIN directCall :
             Present(directCall[f]) => mappedCall[f] = directCall[f]
       /\ mappedCall.Conversation__c # directCall.Conversation__c
             => ~Present(directCall.Conversation__c)
       /\ mappedCall.Notes__c # directCall.Notes__c
             => ~Present(directCall.Notes__c)

InFlight(r) == {k \in 1..Len(attrState[r]) : attrState[r][k] = "pending"}

\* C12 as claimed: a response, success or failure, is produced only after
\* every attribution create of the request has completed.
C12_NoCreateInFlightAtResponse ==
    \A r \in Reqs : Done(r) => InFlight(r) = {}

\* C12 as amended: a success response is produced only after every
\* attribution create of the request has completed successfully; a failure
\* response is produced as soon as one attribution create fails, and only
\* such a response can leave creates of the request in flight.
C12_JoinBeforeSuccess ==
    \A r \in Reqs :
        /\ Succeeded(r) => \A k \in 1..Len(attrState[r]) : attrState[r][k] = "ok"
        /\ Done(r) /\ InFlight(r) # {}
           => /\ AttrFailed(r)
              /\ resp[r].error \in {"Salesforce error", "Unexpected error"}
        /\ pc[r] = "fanout" => ~AttrFailed(r)

C12_Witness ==
    \E r \in Reqs : Done(r) /\ InFlight(r) # {} /\ AttrFailed(r)

\* C13: one request issues authenticate at most once, the lookup query at
\* most once, at most one of create and update against the call object, and
\* at most one create per retained attribution item, whatever fails.
Retained(r) == SelectItems(normalizePayload(payload[r]).attributions)

C13_NoRetry ==
    \A r \in Reqs :
        /\ Cardinality(Issued(r, "authenticate", "token")) <= 1
        /\ Cardinality(Issued(r, "query", "NoCall_Call__c")) <= 1
        /\ Cardinality(Issued(r, "create", "NoCall_Call__c"))
             + Cardinality(Issued(r, "update", "NoCall_Call__c")) <= 1
        /\ Cardinality(Issued(r, "create", "NoCall_Attribution__c"))
             <= (IF Received(r) THEN Len(Retained(r)) ELSE 0)

C13_Witness ==
    \E r \in Reqs :
        /\ Failed(r) /\ fault[r].call.object = "NoCall_Attribution__c"
        /\ Cardinality(Issued(r, "update", "NoCall_Call__c")) = 1
        /\ Cardinality(Issued(r, "create", "NoCall_Attribution__c")) = 2

\* C14: a request that reaches the cascade issues one attribution create
\* per item with a label or a value and no query for attribution rows; so
\* the same payload submitted k times in sequence, all succeeding, leaves
\* one call record with k attribution rows per such item linked to it.
RowsFor(id, item) ==
    {row \in rows : /\ row.NoCall_Call__c = id
                    /\ row.Label__c = item.label
                    /\ row.Value__c = item.value}

C14_RowsPerSubmission ==
    /\ \A r \in Reqs :
          "upsert" \in stepsOk[r]
          => /\ Cardinality(Issued(r, "create", "NoCall_Attribution__c"))
                  = Len(Retained(r))
             /\ Issued(r, "query", "NoCall_Attribution__c") = {}
    /\ \A r1, r2 \in Reqs :
          /\ Received(r1) /\ Received(r2)
          /\ payload[r1] = payload[r2]
          /\ payload[r1].phone # None \/ payload[r1].id # None
          /\ r1 \in doneBefore[r2]
          /\ Succeeded(r1) /\ Succeeded(r2)
          /\ Len(Retained(r1)) > 0
          /\ \A q \in Reqs \ {r1, r2} : log[q] = <<>>
          => /\ Len(calls) = 1
             /\ \A k \in 1..Len(Retained(r1)) :
                   Cardinality(RowsFor(1, Retained(r1)[k])) = 2

\* C15 as claimed: however requests carrying the same match-key value
\* interleave, the store never holds more than one call record with that
\* value.
WithKey(v) == {i \in 1..Len(calls) : calls[i].CallRecord_Id__c = v}

C15_OneRecordPerKey ==
    \A v \in Ids \ {None} : Cardinality(WithKey(v)) <= 1

\* C15 as amended: two call records with the same match-key value exist
\* only when the requests that created them overlapped (neither had been
\* answered when the other arrived); requests carrying the same value that
\* run one after the other leave at most one record with it.
C15_DuplicatesOnlyWhenOverlapping ==
    \A v \in Ids \ {None} :
        \A i, j \in WithKey(v) :
            i # j => /\ calls[i].createdBy \notin doneBefore[calls[j].createdBy]
                     /\ calls[j].createdBy \notin doneBefore[calls[i].createdBy]

C15_Witness ==
    \E v \in Ids \ {None} : Cardinality(WithKey(v)) = 2

====
